---- MODULE Spec2Model ----
(***************************************************************************)
(* Model of ocl-core's error type (src/error.rs): the Error enum, its      *)
(* constructors (new, err, err_status, err_conversion, the From impls),    *)
(* prepend, status, description, Into<String> and Display.                  *)
(*                                                                         *)
(* A Rust String is a sequence of one-character strings, so concatenation, *)
(* emptiness and substring containment are computed, not assumed.          *)
(***************************************************************************)
EXTENDS Integers, Sequences, FiniteSets, TLC

(* ---------------- string literals of the source ---------------- *)

SDK_DOCS_URL_PRE ==
    <<"h","t","t","p","s",":","/","/","w","w","w",".","k","h","r","o","n","o","s",".","o","r",
    "g","/","r","e","g","i","s","t","r","y","/","c","l","/","s","d","k","/","1",".","2","/","d",
    "o","c","s","/","m","a","n","/","x","h","t","m","l","/">>

SDK_DOCS_URL_SUF ==
    <<".","h","t","m","l","#","e","r","r","o","r","s">>

DESC_HEAD ==
    <<"\n","\n","#","#","#","#","#","#","#","#","#","#","#","#","#","#","#","#","#","#","#","#",
    "#","#","#","#","#","#","#","#","#","#","#","#"," ","O","P","E","N","C","L"," ","E","R","R",
    "O","R"," ","#","#","#","#","#","#","#","#","#","#","#","#","#","#","#","#","#","#","#","#",
    "#","#","#","#","#","#","#","#","#","#","#"," ","\n","\n","E","r","r","o","r"," ","e","x",
    "e","c","u","t","i","n","g"," ","f","u","n","c","t","i","o","n",":"," ">>

DESC_STATUS ==
    <<" "," ","\n","\n","S","t","a","t","u","s"," ","e","r","r","o","r"," ","c","o","d","e",":",
    " ">>

DESC_VISIT ==
    <<" "," ","\n","\n","P","l","e","a","s","e"," ","v","i","s","i","t"," ","t","h","e"," ","f",
    "o","l","l","o","w","i","n","g"," ","u","r","l"," ","f","o","r"," ","m","o","r","e"," ","i",
    "n","f","o","r","m","a","t","i","o","n",":"," ","\n","\n">>

DESC_TAIL ==
    <<" "," ","\n","\n","#","#","#","#","#","#","#","#","#","#","#","#","#","#","#","#","#","#",
    "#","#","#","#","#","#","#","#","#","#","#","#","#","#","#","#","#","#","#","#","#","#","#",
    "#","#","#","#","#","#","#","#","#","#","#","#","#","#","#","#","#","#","#","#","#","#","#",
    "#","#","#","#","#","#","#","#","#","#","#","#","#"," ","\n">>

UNSPECIFIED_DIMENSIONS_DESC ==
    <<"C","a","n","n","o","t"," ","c","o","n","v","e","r","t"," ","t","o"," ","a"," ","v","a",
    "l","i","d"," ","s","e","t"," ","o","f"," ","d","i","m","e","n","s","i","o","n","s","."," ",
    "P","l","e","a","s","e"," ","s","p","e","c","i","f","y"," ","s","o","m","e"," ","d","i","m",
    "e","n","s","i","o","n","s",".">>

NAME_CL_SUCCESS ==
    <<"C","L","_","S","U","C","C","E","S","S">>

NAME_CL_DEVICE_NOT_FOUND ==
    <<"C","L","_","D","E","V","I","C","E","_","N","O","T","_","F","O","U","N","D">>

NAME_CL_OUT_OF_RESOURCES ==
    <<"C","L","_","O","U","T","_","O","F","_","R","E","S","O","U","R","C","E","S">>

NAME_CL_INVALID_VALUE ==
    <<"C","L","_","I","N","V","A","L","I","D","_","V","A","L","U","E">>

FN_clFinish ==
    <<"c","l","F","i","n","i","s","h">>

FN_clEnqueueReadBuffer ==
    <<"c","l","E","n","q","u","e","u","e","R","e","a","d","B","u","f","f","e","r">>

INFO_buffer_size ==
    <<"b","u","f","f","e","r","_","s","i","z","e","=","1","0","2","4">>

TXT_bad_shape ==
    <<"b","a","d"," ","s","h","a","p","e">>

TXT_context ==
    <<"c","o","n","t","e","x","t",":"," ">>

TXT_sep ==
    <<":"," ">>

DESC_NUL ==
    <<"n","u","l"," ","b","y","t","e"," ","f","o","u","n","d"," ","i","n"," ","d","a","t","a">>

DESC_UTF8 ==
    <<"i","n","v","a","l","i","d"," ","u","t","f","-","8">>

DESC_INTO_STRING ==
    <<"C"," ","s","t","r","i","n","g"," ","c","o","n","t","a","i","n","e","d"," ","n","o","n",
    "-","u","t","f","8"," ","b","y","t","e","s">>

DESC_IO_NOT_FOUND ==
    <<"e","n","t","i","t","y"," ","n","o","t"," ","f","o","u","n","d">>

(* ---------------- bounds ---------------- *)

\* Largest number of prepend calls applied to one error value.
MaxPrepends == 2

(* ---------------- string helpers ---------------- *)

\* str::is_empty
is_empty(s) == Len(s) = 0

\* s contains sub as a contiguous substring (str::contains).
Contains(s, sub) ==
    \E i \in 0..(Len(s) - Len(sub)) : SubSeq(s, i + 1, i + Len(sub)) = sub

DigitChar(d) == <<"0","1","2","3","4","5","6","7","8","9">>[d + 1]

RECURSIVE Digits(_)
\* Decimal digits of a natural number, most significant first.
Digits(n) == IF n < 10 THEN <<DigitChar(n)>> ELSE Digits(n \div 10) \o <<DigitChar(n % 10)>>

\* format!("{}", n) for an i32.
FmtI32(n) == IF n < 0 THEN <<"-">> \o Digits(0 - n) ELSE Digits(n)

RECURSIVE ConcatAll(_)
\* Concatenation of a sequence of strings, first element leftmost.
ConcatAll(ss) == IF ss = <<>> THEN <<>> ELSE Head(ss) \o ConcatAll(Tail(ss))

RECURSIVE Reverse(_)
Reverse(ss) == IF ss = <<>> THEN <<>> ELSE Reverse(Tail(ss)) \o <<Head(ss)>>

(* ---------------- the Status enumeration (::Status) ---------------- *)

\* The variants of Status with their discriminants and Debug names.
StatusTable ==
    { [variant |-> "CL_SUCCESS",          disc |-> 0,   name |-> NAME_CL_SUCCESS],
      [variant |-> "CL_DEVICE_NOT_FOUND", disc |-> -1,  name |-> NAME_CL_DEVICE_NOT_FOUND],
      [variant |-> "CL_OUT_OF_RESOURCES", disc |-> -5,  name |-> NAME_CL_OUT_OF_RESOURCES],
      [variant |-> "CL_INVALID_VALUE",    disc |-> -30, name |-> NAME_CL_INVALID_VALUE] }

StatusVariants == { r.variant : r \in StatusTable }

KnownCodes == { r.disc : r \in StatusTable }

CL_SUCCESS == "CL_SUCCESS"

\* Status::from_i32: the variant whose discriminant is n, if any.
from_i32(n) ==
    IF \E r \in StatusTable : r.disc = n
    THEN [some |-> TRUE, value |-> (CHOOSE r \in StatusTable : r.disc = n).variant]
    ELSE [some |-> FALSE]

\* `status as i32`
as_i32(status) == (CHOOSE r \in StatusTable : r.variant = status).disc

\* format!("{:?}", status)
fmt_debug(status) == (CHOOSE r \in StatusTable : r.variant = status).name

(* ---------------- inputs ---------------- *)

\* Status integers handed to err_status: the known ones and two outside the enumeration.
ErrCodes == KnownCodes \cup {1, -9999}

\* &'static str operation names.
FnNames == {FN_clFinish, FN_clEnqueueReadBuffer}

\* fn_info argument strings.
FnInfos == {<<>>, INFO_buffer_size}

\* Description texts given to new / err / err_conversion / From<String> / From<&str>.
Texts == {<<>>, TXT_bad_shape}

\* Texts given to prepend.
PrependTexts == {<<>>, TXT_context, TXT_sep}

\* Foreign errors, each with the text its own description() returns.
NulErrors == { [type |-> "NulError", description |-> DESC_NUL] }

FromUtf8Errors == { [type |-> "FromUtf8Error", description |-> DESC_UTF8] }

IntoStringErrors == { [type |-> "IntoStringError", description |-> DESC_INTO_STRING] }

\* An io::Error describes itself by its kind, or by its custom payload (any text, even empty).
IoErrors == { [type |-> "io::Error", description |-> d] : d \in {DESC_IO_NOT_FOUND, TXT_bad_shape, <<>>} }

\* err.description() of a wrapped foreign error.
foreign_description(err) == err.description

(* ---------------- pure functions of error.rs ---------------- *)

\* fmt_status_desc(status, fn_name, fn_info)
fmt_status_desc(status, fn_name, fn_info) ==
    LET fn_info_string == IF is_empty(fn_info) = FALSE
                          THEN <<"(", "\"">> \o fn_info \o <<"\"", ")">>
                          ELSE <<>>
    IN  DESC_HEAD \o fn_name \o fn_info_string
        \o DESC_STATUS \o fmt_debug(status) \o <<" ", "(">> \o FmtI32(as_i32(status)) \o <<")">>
        \o DESC_VISIT \o SDK_DOCS_URL_PRE \o fn_name \o SDK_DOCS_URL_SUF
        \o DESC_TAIL

\* Error::new(desc)
new(desc) == [variant |-> "String", string |-> desc]

\* err_status with the Debug name taken from the rendered diagnostic instead of the status.
err_status_result_name_from_desc(errcode, fn_name, fn_info) ==
    LET found == from_i32(errcode) IN
    IF ~found.some THEN [tag |-> "Panic"]
    ELSE LET status == found.value IN
         IF status = CL_SUCCESS THEN [tag |-> "Ok", value |-> "default"]
         ELSE LET desc == fmt_status_desc(status, fn_name, fn_info)
              IN  [tag |-> "Err",
                   error |-> [variant |-> "Status", status |-> status,
                              status_string |-> desc, fn_name |-> fn_name,
                              fn_info |-> fn_info, desc |-> desc]]

\* err_status without the branch on CL_SUCCESS.
err_status_result_no_success_branch(errcode, fn_name, fn_info) ==
    LET found == from_i32(errcode) IN
    IF ~found.some THEN [tag |-> "Panic"]
    ELSE LET status == found.value
             desc == fmt_status_desc(status, fn_name, fn_info)
             status_string == fmt_debug(status)
         IN  [tag |-> "Err",
              error |-> [variant |-> "Status", status |-> status,
                         status_string |-> status_string, fn_name |-> fn_name,
                         fn_info |-> fn_info, desc |-> desc]]

\* err_status falling back to Err(String) on an unknown code instead of panicking.
err_status_result_no_panic(errcode, fn_name, fn_info) ==
    LET found == from_i32(errcode) IN
    IF ~found.some THEN [tag |-> "Err", error |-> [variant |-> "String", string |-> fn_info]]
    ELSE LET status == found.value IN
         IF status = CL_SUCCESS THEN [tag |-> "Ok", value |-> "default"]
         ELSE LET desc == fmt_status_desc(status, fn_name, fn_info)
                  status_string == fmt_debug(status)
              IN  [tag |-> "Err",
                   error |-> [variant |-> "Status", status |-> status,
                              status_string |-> status_string, fn_name |-> fn_name,
                              fn_info |-> fn_info, desc |-> desc]]

\* What Error::err_status(errcode, fn_name, fn_info) does: panic, Ok(T::default()) or Err(Status{..}).
err_status_result(errcode, fn_name, fn_info) ==
    LET found == from_i32(errcode) IN
    IF ~found.some THEN [tag |-> "Panic"]
    ELSE LET status == found.value IN
         IF status = CL_SUCCESS THEN [tag |-> "Ok", value |-> "default"]
         ELSE LET desc == fmt_status_desc(status, fn_name, fn_info)
                  status_string == fmt_debug(status)
              IN  [tag |-> "Err",
                   error |-> [variant |-> "Status", status |-> status,
                              status_string |-> status_string, fn_name |-> fn_name,
                              fn_info |-> fn_info, desc |-> desc]]

\* prepend pushing the old contents before txt.
prepend_result_appends(self, txt) ==
    IF self.variant = "String"
    THEN LET old_string_copy == self.string
             cleared == <<>>
             pushed1 == cleared \o old_string_copy
             pushed2 == pushed1 \o txt
         IN  [self EXCEPT !.string = pushed2]
    ELSE self

\* prepend also rewriting the text of a Conversion.
prepend_result_conversion_too(self, txt) ==
    IF self.variant = "String"
    THEN [self EXCEPT !.string = txt \o self.string]
    ELSE IF self.variant = "Conversion"
         THEN [self EXCEPT !.desc = txt \o self.desc]
         ELSE self

\* Error::prepend(txt): the value of *self after the call.
prepend_result(self, txt) ==
    IF self.variant = "String"
    THEN LET old_string_copy == self.string
             cleared == <<>>
             pushed1 == cleared \o txt
             pushed2 == pushed1 \o old_string_copy
         IN  [self EXCEPT !.string = pushed2]
    ELSE self

\* status matching the wrong variant.
status_wrong_variant(self) ==
    IF self.variant = "String" THEN [some |-> TRUE, value |-> CL_SUCCESS]
    ELSE [some |-> FALSE]

\* Error::status(&self)
status(self) ==
    IF self.variant = "Status" THEN [some |-> TRUE, value |-> self.status]
    ELSE [some |-> FALSE]

\* description with an empty sentence for UnspecifiedDimensions.
description_empty_dimensions(self) ==
    CASE self.variant = "Conversion" -> self.desc
      [] self.variant = "Nul" -> foreign_description(self.err)
      [] self.variant = "Io" -> foreign_description(self.err)
      [] self.variant = "FromUtf8Error" -> foreign_description(self.err)
      [] self.variant = "IntoStringError" -> foreign_description(self.err)
      [] self.variant = "Status" -> self.status_string
      [] self.variant = "String" -> self.string
      [] self.variant = "UnspecifiedDimensions" -> <<>>

\* <Error as std::error::Error>::description(&self)
description(self) ==
    CASE self.variant = "Conversion" -> self.desc
      [] self.variant = "Nul" -> foreign_description(self.err)
      [] self.variant = "Io" -> foreign_description(self.err)
      [] self.variant = "FromUtf8Error" -> foreign_description(self.err)
      [] self.variant = "IntoStringError" -> foreign_description(self.err)
      [] self.variant = "Status" -> self.status_string
      [] self.variant = "String" -> self.string
      [] self.variant = "UnspecifiedDimensions" -> UNSPECIFIED_DIMENSIONS_DESC

\* <Error as Into<String>>::into(self)
into_string(self) == description(self)

\* Formatter::write_str on a formatter whose buffer holds buf.
write_str(buf, s) == buf \o s

\* Display rendering the Debug name of the variant instead of the description.
fmt_display_variant_name(self, buf) == write_str(buf, <<self.variant>>)

\* <Error as Display>::fmt(&self, f): the buffer of f after the call.
fmt_display(self, buf) == write_str(buf, description(self))

\* The From impls.
from_String(desc) == new(desc)

from_str(desc) == new(desc)

from_NulError(err) == [variant |-> "Nul", err |-> err]

\* From<io::Error> keeping only the text, as a String variant.
from_io_Error_as_string(err) == [variant |-> "String", string |-> foreign_description(err)]

from_io_Error(err) == [variant |-> "Io", err |-> err]

from_FromUtf8Error(err) == [variant |-> "FromUtf8Error", err |-> err]

from_IntoStringError(err) == [variant |-> "IntoStringError", err |-> err]

(* ---------------- state ---------------- *)

VARIABLES
    e,        \* the Error value the caller currently owns (NoError before any was made)
    ret,      \* what the last call returned
    call,     \* the last call and its arguments
    aborted,  \* TRUE once a call has panicked
    f,        \* buffer of the formatter handed to the Display::fmt call just made (a temporary:
              \* empty once any other call is made)
    hist      \* how e was built: constructor, its text / code, and the texts prepended since

vars == <<e, ret, call, aborted, f, hist>>

NoError == [variant |-> "NoError"]

NoHist == [ctor |-> "none", text |-> <<>>, code |-> 0, pre |-> <<>>]

\* Prior contents of a formatter's buffer.
Bufs == {<<>>, <<">", " ">>}

Init ==
    /\ e = NoError
    /\ ret = [tag |-> "None"]
    /\ call = [op |-> "none"]
    /\ aborted = FALSE
    /\ f = <<>>
    /\ hist = NoHist

\* A constructor or conversion returned the error value v.
Made(v, ctor, text) ==
    /\ e' = v
    /\ hist' = [ctor |-> ctor, text |-> text, code |-> 0, pre |-> <<>>]
    /\ f' = <<>>
    /\ UNCHANGED aborted

(* ---------------- operations ---------------- *)

\* Error::new(desc)
New ==
    \E desc \in Texts :
        /\ ~aborted
        /\ call' = [op |-> "new", desc |-> desc]
        /\ ret' = [tag |-> "Error", error |-> new(desc)]
        /\ Made(new(desc), "new", desc)

\* Error::err(desc)
Err ==
    \E desc \in Texts :
        /\ ~aborted
        /\ call' = [op |-> "err", desc |-> desc]
        /\ ret' = [tag |-> "Err", error |-> [variant |-> "String", string |-> desc]]
        /\ Made([variant |-> "String", string |-> desc], "err", desc)

\* Error::err_status(errcode, fn_name, fn_info)
ErrStatus ==
    \E errcode \in ErrCodes, fn_name \in FnNames, fn_info \in FnInfos :
        LET r == err_status_result(errcode, fn_name, fn_info) IN
        /\ ~aborted
        /\ call' = [op |-> "err_status", errcode |-> errcode, fn_name |-> fn_name,
                    fn_info |-> fn_info]
        /\ CASE r.tag = "Panic" ->
                  /\ aborted' = TRUE
                  /\ ret' = [tag |-> "NoReturn"]
                  /\ f' = <<>>
                  /\ UNCHANGED <<e, hist>>
             [] r.tag = "Ok" ->
                  /\ ret' = r
                  /\ f' = <<>>
                  /\ UNCHANGED <<e, aborted, hist>>
             [] r.tag = "Err" ->
                  /\ ret' = r
                  /\ e' = r.error
                  /\ hist' = [ctor |-> "err_status", text |-> fn_info, code |-> errcode,
                              pre |-> <<>>]
                  /\ f' = <<>>
                  /\ UNCHANGED aborted

\* Error::err_conversion(desc)
ErrConversion ==
    \E desc \in Texts :
        /\ ~aborted
        /\ call' = [op |-> "err_conversion", desc |-> desc]
        /\ ret' = [tag |-> "Err", error |-> [variant |-> "Conversion", desc |-> desc]]
        /\ Made([variant |-> "Conversion", desc |-> desc], "err_conversion", desc)

\* Error::UnspecifiedDimensions, built directly by a caller.
MakeUnspecifiedDimensions ==
    /\ ~aborted
    /\ call' = [op |-> "UnspecifiedDimensions"]
    /\ ret' = [tag |-> "Error", error |-> [variant |-> "UnspecifiedDimensions"]]
    /\ Made([variant |-> "UnspecifiedDimensions"], "UnspecifiedDimensions", <<>>)

\* Error::prepend(&mut self, txt)
Prepend ==
    \E txt \in PrependTexts :
        /\ ~aborted
        /\ e # NoError
        /\ Len(hist.pre) < MaxPrepends
        /\ call' = [op |-> "prepend", txt |-> txt]
        /\ e' = prepend_result(e, txt)
        /\ ret' = [tag |-> "Unit"]
        /\ hist' = [hist EXCEPT !.pre = Append(@, txt)]
        /\ f' = <<>>
        /\ UNCHANGED aborted

\* Error::status(&self)
Status ==
    /\ ~aborted
    /\ e # NoError
    /\ call' = [op |-> "status"]
    /\ ret' = [tag |-> "Option", option |-> status(e)]
    /\ f' = <<>>
    /\ UNCHANGED <<e, aborted, hist>>

\* Error::description(&self)
Description ==
    /\ ~aborted
    /\ e # NoError
    /\ call' = [op |-> "description"]
    /\ ret' = [tag |-> "str", value |-> description(e)]
    /\ f' = <<>>
    /\ UNCHANGED <<e, aborted, hist>>

\* Into<String>::into(self): consumes the error.
Into ==
    /\ ~aborted
    /\ e # NoError
    /\ call' = [op |-> "into", self |-> e]
    /\ ret' = [tag |-> "String", value |-> into_string(e)]
    /\ e' = NoError
    /\ hist' = NoHist
    /\ f' = <<>>
    /\ UNCHANGED aborted

\* From<String>::from(desc)
FromString ==
    \E desc \in Texts :
        /\ ~aborted
        /\ call' = [op |-> "from_String", desc |-> desc]
        /\ ret' = [tag |-> "Error", error |-> from_String(desc)]
        /\ Made(from_String(desc), "from_String", desc)

\* From<&str>::from(desc)
FromStr ==
    \E desc \in Texts :
        /\ ~aborted
        /\ call' = [op |-> "from_str", desc |-> desc]
        /\ ret' = [tag |-> "Error", error |-> from_str(desc)]
        /\ Made(from_str(desc), "from_str", desc)

\* From<std::ffi::NulError>::from(err)
FromNulError ==
    \E err \in NulErrors :
        /\ ~aborted
        /\ call' = [op |-> "from_NulError", err |-> err]
        /\ ret' = [tag |-> "Error", error |-> from_NulError(err)]
        /\ Made(from_NulError(err), "from_NulError", foreign_description(err))

\* From<std::io::Error>::from(err)
FromIoError ==
    \E err \in IoErrors :
        /\ ~aborted
        /\ call' = [op |-> "from_io_Error", err |-> err]
        /\ ret' = [tag |-> "Error", error |-> from_io_Error(err)]
        /\ Made(from_io_Error(err), "from_io_Error", foreign_description(err))

\* From<std::string::FromUtf8Error>::from(err)
FromFromUtf8Error ==
    \E err \in FromUtf8Errors :
        /\ ~aborted
        /\ call' = [op |-> "from_FromUtf8Error", err |-> err]
        /\ ret' = [tag |-> "Error", error |-> from_FromUtf8Error(err)]
        /\ Made(from_FromUtf8Error(err), "from_FromUtf8Error", foreign_description(err))

\* From<std::ffi::IntoStringError>::from(err)
FromIntoStringError ==
    \E err \in IntoStringErrors :
        /\ ~aborted
        /\ call' = [op |-> "from_IntoStringError", err |-> err]
        /\ ret' = [tag |-> "Error", error |-> from_IntoStringError(err)]
        /\ Made(from_IntoStringError(err), "from_IntoStringError", foreign_description(err))

\* Display::fmt(&self, f)
Fmt ==
    \E buf \in Bufs :
        /\ ~aborted
        /\ e # NoError
        /\ call' = [op |-> "fmt", buf |-> buf]
        /\ f' = fmt_display(e, buf)
        /\ ret' = [tag |-> "Ok", value |-> "()"]
        /\ UNCHANGED <<e, aborted, hist>>

Next ==
    \/ New
    \/ Err
    \/ ErrStatus
    \/ ErrConversion
    \/ MakeUnspecifiedDimensions
    \/ Prepend
    \/ Status
    \/ Description
    \/ Into
    \/ FromString
    \/ FromStr
    \/ FromNulError
    \/ FromIoError
    \/ FromFromUtf8Error
    \/ FromIntoStringError
    \/ Fmt

Spec == Init /\ [][Next]_vars

(* ---------------- properties ---------------- *)

\* The symbolic name the enumeration gives a known status integer.
SymbolicName(code) == (CHOOSE r \in StatusTable : r.disc = code).name

\* The success sentinel as an integer.
SuccessCode == as_i32(CL_SUCCESS)

\* The variants the taxonomy calls InvalidText.
InvalidText == {"Nul", "FromUtf8Error", "IntoStringError"}

\* The documentation URL of an operation.
DocsUrl(fn_name) == SDK_DOCS_URL_PRE \o fn_name \o SDK_DOCS_URL_SUF

\* C1: for every known status code other than the success sentinel, and any operation name
\* and argument string, err_status returns Err(Status{..}) whose status has the input code
\* and whose status_string is the symbolic name of that code.
C1_FailureCarriesCodeAndName ==
    (call.op = "err_status" /\ call.errcode \in KnownCodes \ {SuccessCode}) =>
        /\ ret.tag = "Err"
        /\ ret.error.variant = "Status"
        /\ as_i32(ret.error.status) = call.errcode
        /\ ret.error.status_string = SymbolicName(call.errcode)
        /\ e = ret.error

C1_Witness ==
    /\ call.op = "err_status"
    /\ call.errcode = -30
    /\ call.fn_info = INFO_buffer_size
    /\ ret.tag = "Err"

\* C2: err_status called with the success sentinel returns Ok(T::default()) for any operation
\* name and argument string, and no Status error ever carries the success code.
C2_SuccessIsOk ==
    /\ (call.op = "err_status" /\ call.errcode = SuccessCode) =>
            ret = [tag |-> "Ok", value |-> "default"]
    /\ (e.variant = "Status" => e.status # CL_SUCCESS /\ as_i32(e.status) # SuccessCode)
    /\ (ret.tag = "Err" /\ ret.error.variant = "Status" => ret.error.status # CL_SUCCESS)

C2_Witness ==
    /\ call.op = "err_status"
    /\ call.errcode = SuccessCode
    /\ call.fn_info # <<>>
    /\ ret.tag = "Ok"

\* C3: for every Status error produced by err_status, description() is the precomputed desc
\* field and so contains the operation name, the symbolic status name, the decimal code and
\* the documentation URL of the operation.
C3_DescriptionIsRenderedDiagnostic ==
    e.variant = "Status" =>
        /\ description(e) = e.desc
        /\ Contains(description(e), e.fn_name)
        /\ Contains(description(e), SymbolicName(hist.code))
        /\ Contains(description(e), FmtI32(hist.code))
        /\ Contains(description(e), DocsUrl(e.fn_name))

\* C4: err_status given an integer outside the enumeration panics and returns neither Ok nor
\* Err, and no other call of the module panics.
C4_PanicOnlyOnUnknownCode ==
    /\ aborted <=> (call.op = "err_status" /\ call.errcode \notin KnownCodes)
    /\ aborted => ret.tag = "NoReturn"
    /\ (call.op = "err_status" /\ call.errcode \notin KnownCodes) => ret.tag \notin {"Ok", "Err"}

C4_Witness ==
    /\ aborted
    /\ call.op = "err_status"
    /\ call.errcode = -9999
    /\ e # NoError

\* C5: status() returns Some(status) with the code given to err_status for a Status error,
\* and None for every other variant.
C5_StatusAccessor ==
    call.op = "status" =>
        /\ ret.tag = "Option"
        /\ IF e.variant = "Status"
           THEN /\ ret.option.some
                /\ as_i32(ret.option.value) = hist.code
                /\ hist.ctor = "err_status"
           ELSE ~ret.option.some

C5_Witness ==
    /\ call.op = "status"
    /\ e.variant = "Status"
    /\ ret.option.some
    /\ as_i32(ret.option.value) = -5

\* C6: after err(s) followed by prepend(t1), ..., prepend(tn) the value is still a String
\* variant whose text is tn + ... + t1 + s.
C6_PrependConcatenates ==
    hist.ctor = "err" =>
        /\ e.variant = "String"
        /\ e.string = ConcatAll(Reverse(hist.pre)) \o hist.text

C6_Witness ==
    /\ hist.ctor = "err"
    /\ hist.text = TXT_bad_shape
    /\ hist.pre = <<TXT_sep, TXT_context>>
    /\ e.string = TXT_context \o TXT_sep \o TXT_bad_shape

\* C7: prepend on a variant other than String changes nothing: the variant, every carried
\* field, description() and status() are as before the call.
C7_PrependFrame ==
    [][(call'.op = "prepend" /\ e.variant # "String") =>
            /\ e' = e
            /\ description(e') = description(e)
            /\ status(e') = status(e)]_vars

C7_Witness ==
    /\ call.op = "prepend"
    /\ call.txt = TXT_context
    /\ e.variant = "Conversion"
    /\ e.desc = TXT_bad_shape

\* C8: Display::fmt writes exactly the string description() returns and reports success.
C8_DisplayIsDescription ==
    call.op = "fmt" =>
        /\ f = call.buf \o description(e)
        /\ ret = [tag |-> "Ok", value |-> "()"]

C8_Witness ==
    /\ call.op = "fmt"
    /\ call.buf # <<>>
    /\ e.variant = "Status"
    /\ Len(f) > Len(call.buf)

\* C9: converting a NulError, FromUtf8Error or IntoStringError gives an InvalidText variant
\* and converting an io::Error gives Io, each describing itself as the foreign error does;
\* converting an owned or borrowed string gives String whose description is that text.
C9_ConversionsRoundTrip ==
    /\ call.op \in {"from_NulError", "from_FromUtf8Error", "from_IntoStringError"} =>
            /\ e.variant \in InvalidText
            /\ e.err = call.err
            /\ description(e) = foreign_description(call.err)
    /\ call.op = "from_io_Error" =>
            /\ e.variant = "Io"
            /\ e.err = call.err
            /\ description(e) = foreign_description(call.err)
    /\ call.op \in {"from_String", "from_str"} =>
            /\ e.variant = "String"
            /\ description(e) = call.desc

C9_Witness ==
    /\ call.op = "from_io_Error"
    /\ e.variant = "Io"
    /\ description(e) = DESC_IO_NOT_FOUND

\* C10 as stated: every error value reachable through the public operations has a
\* non-empty description.
C10_DescriptionNonEmpty ==
    e # NoError => description(e) # <<>>

\* The texts that e carries verbatim: what its constructor was given and, for a String
\* variant, what was prepended since.
CarriedTexts ==
    {hist.text} \cup (IF e.variant = "String" THEN {hist.pre[i] : i \in 1..Len(hist.pre)} ELSE {})

\* C10 amended: description() is non-empty for Status and UnspecifiedDimensions, and for the
\* other variants exactly when some carried text is non-empty.
C10_DescriptionNonEmptyUnlessTextsEmpty ==
    e # NoError =>
        IF e.variant \in {"Status", "UnspecifiedDimensions"}
        THEN description(e) # <<>>
        ELSE (description(e) = <<>>) <=> (\A t \in CarriedTexts : t = <<>>)

C10_Witness ==
    /\ e.variant = "String"
    /\ hist.text = <<>>
    /\ hist.pre = <<<<>>, TXT_sep>>
    /\ description(e) = TXT_sep


====
